---- MODULE Spec2Model ----
(***************************************************************************)
(* View model of one cell of the notebook diff editor                      *)
(* (src/vs/workbench/contrib/notebook/browser/diff/celllDiffViewModel.ts): *)
(* CellDiffViewModelBase with its two subclasses                           *)
(* SingleSideCellDiffViewModel and SideBySideCellDiffViewModel, and the    *)
(* function getFormatedMetadataJSON.                                       *)
(*                                                                         *)
(* One instance is modelled.  `kind` says which subclass it is; the fields *)
(* of the other subclass do not exist and stay at their empty values.      *)
(* Every public method is one action; `op`, `ret` and `fired` record the   *)
(* last call, what it returned or threw, and the events the layout emitter *)
(* delivered to its listeners during that call.                            *)
(***************************************************************************)
EXTENDS Integers, Sequences, FiniteSets, TLC

VARIABLES
    kind,                       \* "single" | "sideBySide"
    documentTextModel,          \* readonly constructor argument
    original,                   \* readonly constructor argument, None or Some(cell)
    modified,                   \* readonly constructor argument, None or Some(cell)
    type,                       \* readonly constructor argument
    metadataFoldingState,
    outputFoldingState,
    _layoutInfo,
    _outputCollection,          \* SingleSideCellDiffViewModel
    _outputsTop,                \* SingleSideCellDiffViewModel
    _originalOutputCollection,  \* SideBySideCellDiffViewModel
    _originalOutputsTop,        \* SideBySideCellDiffViewModel
    _modifiedOutputCollection,  \* SideBySideCellDiffViewModel
    _modifiedOutputsTop,        \* SideBySideCellDiffViewModel
    op,                         \* the last call: its name and arguments
    ret,                        \* what the last call returned or threw
    fired                       \* events delivered to listeners during the last call

vars ==
    << kind, documentTextModel, original, modified, type,
       metadataFoldingState, outputFoldingState, _layoutInfo,
       _outputCollection, _outputsTop,
       _originalOutputCollection, _originalOutputsTop,
       _modifiedOutputCollection, _modifiedOutputsTop,
       op, ret, fired >>

(***************************************************************************)
(* Bounds of the model.                                                    *)
(***************************************************************************)
\* most outputs a cell has
MaxOutputs ==
    2

\* largest pixel height an output reports
MaxHeight ==
    1

\* most outputs the two cells of a side-by-side entry have together
MaxPairOutputs ==
    3

\* most outputs of the cells the layout setters are explored with
MaxLayoutOutputs ==
    1

\* most keys a cell's metadata object holds
MaxMetadataKeys ==
    2

\* how far below 0 the indices of careless callers reach
MaxBelow ==
    1

\* heights the outputs report to updateOutputHeight
Heights ==
    0..MaxHeight

\* heights the view hands to the layout setters
LayoutHeights ==
    {0, 1}

\* indices the callers pass: the valid ones and the ones past the end
Indices ==
    0..MaxOutputs

\* the indices of callers that also pass negative ones
AnyIndices ==
    (0 - MaxBelow)..MaxOutputs

(***************************************************************************)
(* Optional values: null / undefined is the empty tuple.                   *)
(***************************************************************************)
None ==
    << >>

Some(v) ==
    << v >>

\* a hole of `new Array(n)`: reading it yields undefined
Hole ==
    << >>

Expanded ==
    "Expanded"

Collapsed ==
    "Collapsed"

OutOfRange ==
    "Output index out of range!"

RECURSIVE SumTo(_, _)
\* s[1] + ... + s[n]
SumTo(s, n) ==
    IF n <= 0 THEN 0 ELSE s[n] + SumTo(s, n - 1)

Max(a, b) ==
    IF a >= b THEN a ELSE b


(***************************************************************************)
(* PrefixSumComputer (vs/editor/common/viewModel/prefixSumComputer): the   *)
(* incremental offset tracker.  The object is the sequence of its values;  *)
(* indices are zero-based as in the program.                               *)
(***************************************************************************)
\* new PrefixSumComputer(values)
PrefixSumComputer(values) ==
    values

\* changeValue(index, value): the tracker afterwards, and whether a value changed
changeValue(psc, index, value) ==
    IF psc[index + 1] = value
    THEN [psc |-> psc, changed |-> FALSE]
    ELSE [psc |-> [psc EXCEPT ![index + 1] = value], changed |-> TRUE]

\* changeValue(index, value) as its caller sees it.  For an index the tracker holds no
\* value at, nothing is said of the answer: the values stay, the answer is either one
changeValueOutcomes(psc, index, value) ==
    IF index \in 0..(Len(psc) - 1)
    THEN {changeValue(psc, index, value)}
    ELSE {[psc |-> psc, changed |-> changed] : changed \in BOOLEAN}

\* getAccumulatedValue(index): values[0] + ... + values[index], 0 below the range
getAccumulatedValue(psc, index) ==
    IF index < 0 THEN 0 ELSE SumTo(psc, index + 1)

\* getTotalValue()
getTotalValue(psc) ==
    SumTo(psc, Len(psc))

(***************************************************************************)
(* Output height collections.                                              *)
(***************************************************************************)
\* new Array(n): n holes
NewArray(n) ==
    [i \in 1..n |-> Hole]

\* a hole taken for one pixel
ToUint32_HoleAsOne(element) ==
    IF element = Hole THEN 1 ELSE element[1]

\* values[i] = collection[i] on a Uint32Array: undefined is stored as 0
\* (the heights of the model stay below 2^32, where the store keeps them)
ToUint32(element) ==
    IF element = Hole THEN 0 ELSE element[1]

\* the Uint32Array the ensure...OutputsTop methods fill from a collection
Uint32Array(collection) ==
    [i \in 1..Len(collection) |-> ToUint32(collection[i])]

\* the store forgotten: the collection keeps its old element
StoreHeight_Forgotten(collection, index, height) ==
    collection

\* collection[index] = height on a JavaScript array: an element below the length is
\* overwritten; an index at or above the length grows the array, holes in between; a
\* negative index names a property "-1", no element, and length and elements stay
StoreHeight(collection, index, height) ==
    IF index < 0 THEN collection
    ELSE IF index < Len(collection) THEN [collection EXCEPT ![index + 1] = Some(height)]
    ELSE [i \in 1..(index + 1) |->
            IF i <= Len(collection) THEN collection[i]
            ELSE IF i = index + 1 THEN Some(height) ELSE Hole]

\* the range check off by one: the index equal to the length passes
IndexOutOfRange_PastEnd(index, collection) ==
    index > Len(collection)

\* the range check of updateOutputHeight and getOutputOffsetInContainer
IndexOutOfRange(index, collection) ==
    index >= Len(collection)

\* if (!top) { top = new PrefixSumComputer(values) }
EnsureTop(top, collection) ==
    IF top = None THEN Some(PrefixSumComputer(Uint32Array(collection))) ELSE top

\* the index handed on as it is: the output's own height is counted in its offset
AccumulatedIndex_Same(index) ==
    index

\* the index getOutputOffsetInContainer(index) hands to getAccumulatedValue
AccumulatedIndex(index) ==
    index - 1

\* top?.getTotalValue() ?? 0
TotalOrZero(top) ==
    IF top = None THEN 0 ELSE getTotalValue(top[1])

\* the total taken up to the last output, not through it
SingleTotalHeight_AllButLast(top) ==
    IF top = None THEN 0 ELSE getAccumulatedValue(top[1], Len(top[1]) - 2)

\* SingleSideCellDiffViewModel.getOutputTotalHeight, after ensureOutputsTop
SingleTotalHeight(top) ==
    TotalOrZero(top)

\* the total of the original side alone
SideBySideTotalHeight_OriginalOnly(originalTop, modifiedTop) ==
    TotalOrZero(originalTop)

\* SideBySideCellDiffViewModel.getOutputTotalHeight, after ensureOutputsTop
SideBySideTotalHeight(originalTop, modifiedTop) ==
    Max(TotalOrZero(originalTop), TotalOrZero(modifiedTop))

(***************************************************************************)
(* The layout record and its change events.                                *)
(***************************************************************************)
\* the _layoutInfo the base constructor builds
InitialLayoutInfo ==
    [ width |-> 0,
      editorHeight |-> 0,
      editorMargin |-> 0,
      metadataHeight |-> 0,
      metadataStatusHeight |-> 25,
      outputHeight |-> 0,
      outputStatusHeight |-> 25,
      bodyMargin |-> 32 ]

\* the sum with outputStatusHeight left out
totalHeight_WithoutOutputStatus(layoutInfo) ==
    layoutInfo.editorHeight
    + layoutInfo.editorMargin
    + layoutInfo.metadataHeight
    + layoutInfo.metadataStatusHeight
    + layoutInfo.outputHeight
    + layoutInfo.bodyMargin

\* get totalHeight()
totalHeight(layoutInfo) ==
    layoutInfo.editorHeight
    + layoutInfo.editorMargin
    + layoutInfo.metadataHeight
    + layoutInfo.metadataStatusHeight
    + layoutInfo.outputHeight
    + layoutInfo.outputStatusHeight
    + layoutInfo.bodyMargin

\* the flags a CellDiffViewModelLayoutChangeEvent may carry
EventFlags ==
    {"outerWidth", "editorHeight", "metadataEditor", "outputEditor", "outputView"}

\* _layoutInfoEmitter.fire(state): the event reaches the listeners at once
Fire(delivered, state) ==
    Append(delivered, state)

\* the event never handed to the emitter
FireLayoutChangeEvent_Dropped(delivered, state) ==
    delivered

\* _fireLayoutChangeEvent(state)
FireLayoutChangeEvent(delivered, state) ==
    Fire(delivered, state)

\* the outputHeight that layoutChange writes
LayoutChangeOutputHeight(foldingState, total) ==
    IF foldingState = Collapsed THEN 0 ELSE total

\* the record built from the constructor's defaults, not from the current fields
LayoutChangeInfo_FromDefaults(layoutInfo, outputHeight) ==
    [InitialLayoutInfo EXCEPT !.outputHeight = outputHeight]

\* the _layoutInfo that layoutChange builds
LayoutChangeInfo(layoutInfo, outputHeight) ==
    [ width |-> layoutInfo.width,
      editorHeight |-> layoutInfo.editorHeight,
      editorMargin |-> layoutInfo.editorMargin,
      metadataHeight |-> layoutInfo.metadataHeight,
      metadataStatusHeight |-> layoutInfo.metadataStatusHeight,
      outputHeight |-> outputHeight,
      outputStatusHeight |-> layoutInfo.outputStatusHeight,
      bodyMargin |-> layoutInfo.bodyMargin ]

\* the event layoutChange fires
LayoutChangeEvent ==
    {}

(***************************************************************************)
(* Records of the last call.                                               *)
(***************************************************************************)
Call(name, side, index) ==
    [name |-> name, original |-> side, index |-> index]

Call0(name) ==
    Call(name, FALSE, 0)

Returned(value) ==
    [error |-> "", value |-> Some(value)]

Void ==
    [error |-> "", value |-> None]

Threw(message) ==
    [error |-> message, value |-> None]

(***************************************************************************)
(* Cells, documents and the metadata snapshot.  A metadata object is the   *)
(* sequence of its <<key, value>> properties in insertion order, the order *)
(* Object.keys and JSON.stringify walk it in.  A text is a sequence of     *)
(* tokens.                                                                 *)
(***************************************************************************)
MetadataKeys ==
    {"editable", "custom"}

MetadataValues ==
    {"1", "2"}

Languages ==
    {"python", "markdown"}

OutputValues ==
    {"out1", "out2"}

\* every token a snapshot text or an output list is made of
Alphabet ==
    << "{", "}", ":", ",", "\n", "language", "editable", "custom",
       "1", "2", "python", "markdown", "out1", "out2" >>

RECURSIVE SeqsOver(_, _)
\* the sequences over S of length at most n
SeqsOver(S, n) ==
    IF n = 0 THEN {<< >>}
    ELSE LET shorter == SeqsOver(S, n - 1)
         IN  shorter \cup {Append(q, x) : q \in shorter, x \in S}

\* the metadata objects of at most MaxMetadataKeys properties
MetadataObjects ==
    {m \in SeqsOver(MetadataKeys \X MetadataValues, MaxMetadataKeys) :
        \A i, j \in 1..Len(m) : i # j => m[i][1] # m[j][1]}

Cell(metadata, language, outputs) ==
    [metadata |-> metadata, language |-> language, outputs |-> outputs]

Document(transientOutputs, transientMetadata) ==
    [transientOptions |->
        [transientOutputs |-> transientOutputs, transientMetadata |-> transientMetadata]]

\* the loop of getFormatedMetadataJSON: the properties whose key the policy
\* does not mark transient, in the order of Object.keys(metadata)
FilteredMetadata(doc, metadata) ==
    IF doc # None
    THEN SelectSeq(metadata,
            LAMBDA property : property[1] \notin doc[1].transientOptions.transientMetadata)
    ELSE metadata

RECURSIVE Properties(_)
\* the properties of an object as JSON.stringify writes them, comma separated
Properties(object) ==
    IF object = << >> THEN << >>
    ELSE (IF Len(object) = 1 THEN << >> ELSE Properties(SubSeq(object, 1, Len(object) - 1)) \o << "," >>)
         \o << object[Len(object)][1], ":", object[Len(object)][2] >>

\* JSON.stringify({ language, ...filteredMetadata })
JSONStringify(language, filteredMetadata) ==
    << "{" >> \o Properties(<< <<"language", language>> >> \o filteredMetadata) \o << "}" >>

RECURSIVE Formatted(_)
\* applyEdits(content, format(content, undefined, {})): every property on a line of its own
Formatted(content) ==
    IF content = << >> THEN << >>
    ELSE LET token == Head(content)
         IN  (CASE token = "{" -> << "{", "\n" >>
                [] token = "," -> << ",", "\n" >>
                [] token = "}" -> << "\n", "}" >>
                [] OTHER -> << token >>) \o Formatted(Tail(content))

\* getFormatedMetadataJSON(documentTextModel, metadata, language)
getFormatedMetadataJSON(doc, metadata, language) ==
    Formatted(JSONStringify(language, FilteredMetadata(doc, metadata)))

HashModulus ==
    65521

CharCode(token) ==
    CHOOSE i \in 1..Len(Alphabet) : Alphabet[i] = token

RECURSIVE HashFrom(_, _)
HashFrom(tokens, hashVal) ==
    IF tokens = << >> THEN hashVal
    ELSE HashFrom(Tail(tokens), (hashVal * 31 + CharCode(Head(tokens))) % HashModulus)

\* hash(obj) of vs/base/common/hash
hash(tokens) ==
    HashFrom(tokens, Len(tokens))

\* this.original?.outputs ?? []
OutputsOf(cell) ==
    IF cell = None THEN << >> ELSE cell[1].outputs

\* this.original?.metadata || {}
MetadataOf(cell) ==
    IF cell = None THEN << >> ELSE cell[1].metadata

\* the entry type not looked at
SideBySideCheckIfOutputsModified_AnyType(doc, orig, mod, entryType) ==
    /\ ~doc.transientOptions.transientOutputs
    /\ hash(OutputsOf(orig)) # hash(OutputsOf(mod))

\* SideBySideCellDiffViewModel.checkIfOutputsModified
SideBySideCheckIfOutputsModified(doc, orig, mod, entryType) ==
    /\ ~doc.transientOptions.transientOutputs
    /\ entryType = "modified"
    /\ hash(OutputsOf(orig)) # hash(OutputsOf(mod))

\* SideBySideCellDiffViewModel.checkMetadataIfModified
SideBySideCheckMetadataIfModified(doc, orig, mod) ==
    hash(getFormatedMetadataJSON(Some(doc), MetadataOf(orig), orig[1].language))
        # hash(getFormatedMetadataJSON(Some(doc), MetadataOf(mod), mod[1].language))

(***************************************************************************)
(* Construction.                                                           *)
(***************************************************************************)
inputs ==
    << kind, documentTextModel, original, modified, type >>

foldingStates ==
    << metadataFoldingState, outputFoldingState >>

singleOutputs ==
    << _outputCollection, _outputsTop >>

originalOutputs ==
    << _originalOutputCollection, _originalOutputsTop >>

modifiedOutputs ==
    << _modifiedOutputCollection, _modifiedOutputsTop >>

\* CellDiffViewModelBase.constructor
BaseConstructor(doc, orig, mod, entryType) ==
    /\ documentTextModel = doc
    /\ original = orig
    /\ modified = mod
    /\ type = entryType
    /\ _layoutInfo = InitialLayoutInfo
    /\ op = Call0("constructor")
    /\ ret = Void
    /\ fired = << >>

\* new SingleSideCellDiffViewModel(doc, orig, mod, entryType, dispatcher)
SingleSideConstructor(doc, orig, mod, entryType) ==
    /\ kind = "single"
    /\ BaseConstructor(doc, orig, mod, entryType)
    /\ metadataFoldingState = Collapsed
    /\ outputFoldingState = Collapsed
    /\ _outputCollection =
          NewArray(IF orig # None THEN Len(orig[1].outputs) ELSE Len(mod[1].outputs))
    /\ _outputsTop = None
    /\ _originalOutputCollection = << >>
    /\ _originalOutputsTop = None
    /\ _modifiedOutputCollection = << >>
    /\ _modifiedOutputsTop = None

\* new SideBySideCellDiffViewModel(doc, orig, mod, entryType, dispatcher)
SideBySideConstructor(doc, orig, mod, entryType) ==
    /\ kind = "sideBySide"
    /\ BaseConstructor(doc, orig, mod, entryType)
    /\ metadataFoldingState =
          (IF SideBySideCheckMetadataIfModified(doc, orig, mod) THEN Expanded ELSE Collapsed)
    /\ outputFoldingState =
          (IF SideBySideCheckIfOutputsModified(doc, orig, mod, entryType)
           THEN Expanded ELSE Collapsed)
    /\ _originalOutputCollection = NewArray(Len(orig[1].outputs))
    /\ _originalOutputsTop = None
    /\ _modifiedOutputCollection = NewArray(Len(mod[1].outputs))
    /\ _modifiedOutputsTop = None
    /\ _outputCollection = << >>
    /\ _outputsTop = None

\* a cell of n outputs and no metadata
PlainCell(n) ==
    Cell(<< >>, "python", [i \in 1..n |-> "out1"])

\* a document whose policy marks nothing transient
PlainDocument ==
    Document(FALSE, {})

\* the instances of cells with at most `most` outputs, `pair` on the two sides together
Instances(most, pair, entryTypes) ==
    \/ \E n \in 0..most :
          \/ SingleSideConstructor(PlainDocument, None, Some(PlainCell(n)), "insert")
          \/ SingleSideConstructor(PlainDocument, Some(PlainCell(n)), None, "delete")
    \/ \E n, m \in 0..most, entryType \in entryTypes :
          /\ n + m <= pair
          /\ SideBySideConstructor(PlainDocument, Some(PlainCell(n)), Some(PlainCell(m)), entryType)

\* the instances every operation is explored from
Init ==
    Instances(MaxLayoutOutputs, MaxLayoutOutputs, {"modified"})

\* the instances the output operations are explored from
InitOutputs ==
    Instances(MaxOutputs, MaxPairOutputs, {"unchanged", "modified"})

\* the side-by-side instances the metadata and output predicates are explored from
InitMetadata ==
    \E transientOutputs \in BOOLEAN, transientMetadata \in SUBSET MetadataKeys,
       originalMetadata \in MetadataObjects, modifiedMetadata \in MetadataObjects,
       language \in Languages, outputs \in {<< value >> : value \in OutputValues},
       entryType \in {"unchanged", "modified"} :
        SideBySideConstructor(Document(transientOutputs, transientMetadata),
            Some(Cell(originalMetadata, "python", << "out1" >>)),
            Some(Cell(modifiedMetadata, language, outputs)),
            entryType)

\* the single-side instances, of cells of every metadata
InitSingleMetadata ==
    \E transientOutputs \in BOOLEAN, transientMetadata \in SUBSET MetadataKeys,
       metadata \in MetadataObjects, language \in Languages :
        LET doc == Document(transientOutputs, transientMetadata)
            cell == Some(Cell(metadata, language, << "out1" >>))
        IN  \/ SingleSideConstructor(doc, None, cell, "insert")
            \/ SingleSideConstructor(doc, cell, None, "delete")

\* the instances the metadata and output predicates are explored from
InitCells ==
    InitMetadata \/ InitSingleMetadata

(***************************************************************************)
(* CellDiffViewModelBase: the layout setters and the host's layout event.  *)
(***************************************************************************)
\* what a call that touches only the layout record leaves alone
LayoutOnly ==
    UNCHANGED << inputs, foldingStates, singleOutputs, originalOutputs, modifiedOutputs >>

\* set outputHeight(height)
SetOutputHeight(height) ==
    /\ _layoutInfo' = [_layoutInfo EXCEPT !.outputHeight = height]
    /\ fired' = FireLayoutChangeEvent(<< >>, {"outputEditor", "outputView"})
    /\ op' = Call0("set outputHeight")
    /\ ret' = Void
    /\ LayoutOnly

\* set outputStatusHeight(height)
SetOutputStatusHeight(height) ==
    /\ _layoutInfo' = [_layoutInfo EXCEPT !.outputStatusHeight = height]
    /\ fired' = FireLayoutChangeEvent(<< >>, {})
    /\ op' = Call0("set outputStatusHeight")
    /\ ret' = Void
    /\ LayoutOnly

\* set editorHeight(height)
SetEditorHeight(height) ==
    /\ _layoutInfo' = [_layoutInfo EXCEPT !.editorHeight = height]
    /\ fired' = FireLayoutChangeEvent(<< >>, {"editorHeight"})
    /\ op' = Call0("set editorHeight")
    /\ ret' = Void
    /\ LayoutOnly

\* set editorMargin(height)
SetEditorMargin(height) ==
    /\ _layoutInfo' = [_layoutInfo EXCEPT !.editorMargin = height]
    /\ fired' = FireLayoutChangeEvent(<< >>, {})
    /\ op' = Call0("set editorMargin")
    /\ ret' = Void
    /\ LayoutOnly

\* set metadataHeight(height)
SetMetadataHeight(height) ==
    /\ _layoutInfo' = [_layoutInfo EXCEPT !.metadataHeight = height]
    /\ fired' = FireLayoutChangeEvent(<< >>, {"metadataEditor"})
    /\ op' = Call0("set metadataHeight")
    /\ ret' = Void
    /\ LayoutOnly

\* the listener taking a new width into the layout record before it notifies
OnDidChangeLayout_StoresWidth ==
    /\ _layoutInfo' = [_layoutInfo EXCEPT !.width = 1]
    /\ fired' = Fire(<< >>, {"outerWidth"})
    /\ op' = Call0("onDidChangeLayout")
    /\ ret' = Void
    /\ LayoutOnly

\* the listener the constructor registers on editorEventDispatcher.onDidChangeLayout
OnDidChangeLayout ==
    /\ fired' = Fire(<< >>, {"outerWidth"})
    /\ op' = Call0("onDidChangeLayout")
    /\ ret' = Void
    /\ UNCHANGED _layoutInfo
    /\ LayoutOnly

\* the view assigns the public field outputFoldingState
SetOutputFoldingState(state) ==
    /\ outputFoldingState' = state
    /\ op' = Call0("outputFoldingState =")
    /\ ret' = Void
    /\ fired' = << >>
    /\ UNCHANGED << inputs, metadataFoldingState, _layoutInfo,
                    singleOutputs, originalOutputs, modifiedOutputs >>

(***************************************************************************)
(* SingleSideCellDiffViewModel.                                            *)
(***************************************************************************)
sideBySideOutputs ==
    << originalOutputs, modifiedOutputs >>

\* ensureOutputsTop()
SingleEnsureOutputsTop ==
    /\ kind = "single"
    /\ _outputsTop' = EnsureTop(_outputsTop, _outputCollection)
    /\ op' = Call0("ensureOutputsTop")
    /\ ret' = Void
    /\ fired' = << >>
    /\ UNCHANGED << inputs, foldingStates, _layoutInfo, _outputCollection, sideBySideOutputs >>

\* the _layoutInfo layoutChange() leaves, the tracker being `top`
SingleLayoutInfoAfterChange(top) ==
    LayoutChangeInfo(_layoutInfo,
        LayoutChangeOutputHeight(outputFoldingState, SingleTotalHeight(top)))

\* layoutChange()
SingleLayoutChange ==
    /\ kind = "single"
    /\ LET top == EnsureTop(_outputsTop, _outputCollection)
       IN  /\ _outputsTop' = top
           /\ _layoutInfo' = SingleLayoutInfoAfterChange(top)
    /\ fired' = Fire(<< >>, LayoutChangeEvent)
    /\ op' = Call0("layoutChange")
    /\ ret' = Void
    /\ UNCHANGED << inputs, foldingStates, _outputCollection, sideBySideOutputs >>

\* updateOutputHeight(index, height)
SingleUpdateOutputHeight(index, height) ==
    /\ kind = "single"
    /\ op' = Call("updateOutputHeight", FALSE, index)
    /\ IF IndexOutOfRange(index, _outputCollection)
       THEN /\ ret' = Threw(OutOfRange)
            /\ fired' = << >>
            /\ UNCHANGED << _layoutInfo, singleOutputs >>
       ELSE LET top == EnsureTop(_outputsTop, _outputCollection)
            IN  \E change \in changeValueOutcomes(top[1], index, height) :
                /\ _outputCollection' = StoreHeight(_outputCollection, index, height)
                /\ _outputsTop' = Some(change.psc)
                /\ IF change.changed
                   THEN /\ _layoutInfo' = SingleLayoutInfoAfterChange(Some(change.psc))
                        /\ fired' = Fire(<< >>, LayoutChangeEvent)
                   ELSE /\ UNCHANGED _layoutInfo
                        /\ fired' = << >>
                /\ ret' = Void
    /\ UNCHANGED << inputs, foldingStates, sideBySideOutputs >>

\* what getOutputOffsetInContainer(index) returns or throws on a collection,
\* its tracker ensured
OutputOffset(top, collection, index) ==
    IF IndexOutOfRange(index, collection)
    THEN Threw(OutOfRange)
    ELSE Returned(getAccumulatedValue(top[1], AccumulatedIndex(index)))

\* getOutputOffsetInContainer(index)
SingleGetOutputOffsetInContainer(index) ==
    /\ kind = "single"
    /\ op' = Call("getOutputOffsetInContainer", FALSE, index)
    /\ LET top == EnsureTop(_outputsTop, _outputCollection)
       IN  /\ _outputsTop' = top
           /\ ret' = OutputOffset(top, _outputCollection, index)
    /\ fired' = << >>
    /\ UNCHANGED << inputs, foldingStates, _layoutInfo, _outputCollection, sideBySideOutputs >>

\* getOutputTotalHeight()
SingleGetOutputTotalHeight ==
    /\ kind = "single"
    /\ op' = Call0("getOutputTotalHeight")
    /\ LET top == EnsureTop(_outputsTop, _outputCollection)
       IN  /\ _outputsTop' = top
           /\ ret' = Returned(SingleTotalHeight(top))
    /\ fired' = << >>
    /\ UNCHANGED << inputs, foldingStates, _layoutInfo, _outputCollection, sideBySideOutputs >>

(***************************************************************************)
(* SideBySideCellDiffViewModel.                                            *)
(***************************************************************************)
\* ensureOriginalOutputsTop()
EnsureOriginalOutputsTop ==
    /\ kind = "sideBySide"
    /\ _originalOutputsTop' = EnsureTop(_originalOutputsTop, _originalOutputCollection)
    /\ op' = Call0("ensureOriginalOutputsTop")
    /\ ret' = Void
    /\ fired' = << >>
    /\ UNCHANGED << inputs, foldingStates, _layoutInfo, singleOutputs,
                    _originalOutputCollection, modifiedOutputs >>

\* ensureModifiedOutputsTop()
EnsureModifiedOutputsTop ==
    /\ kind = "sideBySide"
    /\ _modifiedOutputsTop' = EnsureTop(_modifiedOutputsTop, _modifiedOutputCollection)
    /\ op' = Call0("ensureModifiedOutputsTop")
    /\ ret' = Void
    /\ fired' = << >>
    /\ UNCHANGED << inputs, foldingStates, _layoutInfo, singleOutputs,
                    originalOutputs, _modifiedOutputCollection >>

\* ensureOutputsTop()
SideBySideEnsureOutputsTop ==
    /\ kind = "sideBySide"
    /\ _originalOutputsTop' = EnsureTop(_originalOutputsTop, _originalOutputCollection)
    /\ _modifiedOutputsTop' = EnsureTop(_modifiedOutputsTop, _modifiedOutputCollection)
    /\ op' = Call0("ensureOutputsTop")
    /\ ret' = Void
    /\ fired' = << >>
    /\ UNCHANGED << inputs, foldingStates, _layoutInfo, singleOutputs,
                    _originalOutputCollection, _modifiedOutputCollection >>

\* the _layoutInfo layoutChange() leaves, the trackers being the two given
SideBySideLayoutInfoAfterChange(originalTop, modifiedTop) ==
    LayoutChangeInfo(_layoutInfo,
        LayoutChangeOutputHeight(outputFoldingState,
            SideBySideTotalHeight(originalTop, modifiedTop)))

\* layoutChange()
SideBySideLayoutChange ==
    /\ kind = "sideBySide"
    /\ LET originalTop == EnsureTop(_originalOutputsTop, _originalOutputCollection)
           modifiedTop == EnsureTop(_modifiedOutputsTop, _modifiedOutputCollection)
       IN  /\ _originalOutputsTop' = originalTop
           /\ _modifiedOutputsTop' = modifiedTop
           /\ _layoutInfo' = SideBySideLayoutInfoAfterChange(originalTop, modifiedTop)
    /\ fired' = Fire(<< >>, LayoutChangeEvent)
    /\ op' = Call0("layoutChange")
    /\ ret' = Void
    /\ UNCHANGED << inputs, foldingStates, singleOutputs,
                    _originalOutputCollection, _modifiedOutputCollection >>

\* the update applied to the side the caller did not name
SideBySideUpdateOutputHeight_OtherSide(originalSide, index, height) ==
    /\ kind = "sideBySide"
    /\ op' = Call("updateOutputHeight", originalSide, index)
    /\ LET collection ==
               IF originalSide THEN _modifiedOutputCollection ELSE _originalOutputCollection
       IN  IF IndexOutOfRange(index, collection)
           THEN /\ ret' = Threw(OutOfRange)
                /\ fired' = << >>
                /\ UNCHANGED << _layoutInfo, originalOutputs, modifiedOutputs >>
           ELSE LET originalTop == EnsureTop(_originalOutputsTop, _originalOutputCollection)
                    modifiedTop == EnsureTop(_modifiedOutputsTop, _modifiedOutputCollection)
                    top == IF originalSide THEN modifiedTop ELSE originalTop
                IN  \E change \in changeValueOutcomes(top[1], index, height) :
                    LET stored == StoreHeight(collection, index, height)
                        originalAfter == IF originalSide THEN originalTop ELSE Some(change.psc)
                        modifiedAfter == IF originalSide THEN Some(change.psc) ELSE modifiedTop
                    IN  /\ _originalOutputCollection' =
                              (IF originalSide THEN _originalOutputCollection ELSE stored)
                        /\ _modifiedOutputCollection' =
                              (IF originalSide THEN stored ELSE _modifiedOutputCollection)
                        /\ _originalOutputsTop' = originalAfter
                        /\ _modifiedOutputsTop' = modifiedAfter
                        /\ IF change.changed
                           THEN /\ _layoutInfo' =
                                      SideBySideLayoutInfoAfterChange(originalAfter, modifiedAfter)
                                /\ fired' = Fire(<< >>, LayoutChangeEvent)
                           ELSE /\ UNCHANGED _layoutInfo
                                /\ fired' = << >>
                        /\ ret' = Void
    /\ UNCHANGED << inputs, foldingStates, singleOutputs >>

\* updateOutputHeight(original, index, height)
SideBySideUpdateOutputHeight(originalSide, index, height) ==
    /\ kind = "sideBySide"
    /\ op' = Call("updateOutputHeight", originalSide, index)
    /\ IF originalSide
       THEN IF IndexOutOfRange(index, _originalOutputCollection)
            THEN /\ ret' = Threw(OutOfRange)
                 /\ fired' = << >>
                 /\ UNCHANGED << _layoutInfo, originalOutputs, modifiedOutputs >>
            ELSE LET originalTop == EnsureTop(_originalOutputsTop, _originalOutputCollection)
                     modifiedTop == EnsureTop(_modifiedOutputsTop, _modifiedOutputCollection)
                 IN  \E change \in changeValueOutcomes(originalTop[1], index, height) :
                     /\ _originalOutputCollection' =
                            StoreHeight(_originalOutputCollection, index, height)
                     /\ _originalOutputsTop' = Some(change.psc)
                     /\ _modifiedOutputsTop' = modifiedTop
                     /\ UNCHANGED _modifiedOutputCollection
                     /\ IF change.changed
                        THEN /\ _layoutInfo' =
                                   SideBySideLayoutInfoAfterChange(Some(change.psc), modifiedTop)
                             /\ fired' = Fire(<< >>, LayoutChangeEvent)
                        ELSE /\ UNCHANGED _layoutInfo
                             /\ fired' = << >>
                     /\ ret' = Void
       ELSE IF IndexOutOfRange(index, _modifiedOutputCollection)
            THEN /\ ret' = Threw(OutOfRange)
                 /\ fired' = << >>
                 /\ UNCHANGED << _layoutInfo, originalOutputs, modifiedOutputs >>
            ELSE LET originalTop == EnsureTop(_originalOutputsTop, _originalOutputCollection)
                     modifiedTop == EnsureTop(_modifiedOutputsTop, _modifiedOutputCollection)
                 IN  \E change \in changeValueOutcomes(modifiedTop[1], index, height) :
                     /\ _modifiedOutputCollection' =
                            StoreHeight(_modifiedOutputCollection, index, height)
                     /\ _modifiedOutputsTop' = Some(change.psc)
                     /\ _originalOutputsTop' = originalTop
                     /\ UNCHANGED _originalOutputCollection
                     /\ IF change.changed
                        THEN /\ _layoutInfo' =
                                   SideBySideLayoutInfoAfterChange(originalTop, Some(change.psc))
                             /\ fired' = Fire(<< >>, LayoutChangeEvent)
                        ELSE /\ UNCHANGED _layoutInfo
                             /\ fired' = << >>
                     /\ ret' = Void
    /\ UNCHANGED << inputs, foldingStates, singleOutputs >>

\* getOutputOffsetInContainer(original, index)
SideBySideGetOutputOffsetInContainer(originalSide, index) ==
    /\ kind = "sideBySide"
    /\ op' = Call("getOutputOffsetInContainer", originalSide, index)
    /\ LET originalTop == EnsureTop(_originalOutputsTop, _originalOutputCollection)
           modifiedTop == EnsureTop(_modifiedOutputsTop, _modifiedOutputCollection)
       IN  /\ _originalOutputsTop' = originalTop
           /\ _modifiedOutputsTop' = modifiedTop
           /\ ret' = IF originalSide
                     THEN OutputOffset(originalTop, _originalOutputCollection, index)
                     ELSE OutputOffset(modifiedTop, _modifiedOutputCollection, index)
    /\ fired' = << >>
    /\ UNCHANGED << inputs, foldingStates, _layoutInfo, singleOutputs,
                    _originalOutputCollection, _modifiedOutputCollection >>

\* getOutputTotalHeight()
SideBySideGetOutputTotalHeight ==
    /\ kind = "sideBySide"
    /\ op' = Call0("getOutputTotalHeight")
    /\ LET originalTop == EnsureTop(_originalOutputsTop, _originalOutputCollection)
           modifiedTop == EnsureTop(_modifiedOutputsTop, _modifiedOutputCollection)
       IN  /\ _originalOutputsTop' = originalTop
           /\ _modifiedOutputsTop' = modifiedTop
           /\ ret' = Returned(SideBySideTotalHeight(originalTop, modifiedTop))
    /\ fired' = << >>
    /\ UNCHANGED << inputs, foldingStates, _layoutInfo, singleOutputs,
                    _originalOutputCollection, _modifiedOutputCollection >>

(***************************************************************************)
(* The metadata snapshot and the two modified-predicates.                  *)
(***************************************************************************)
\* what a call that only reads leaves alone
ReadOnly ==
    UNCHANGED << inputs, foldingStates, _layoutInfo, singleOutputs, sideBySideOutputs >>

\* the cell of one side
CellOf(originalSide) ==
    IF originalSide THEN original ELSE modified

\* getFormatedMetadataJSON(documentTextModel, cell.metadata, cell.language), as the
\* metadata editor of one side calls it
GetFormatedMetadataJSON(originalSide) ==
    /\ CellOf(originalSide) # None
    /\ op' = Call("getFormatedMetadataJSON", originalSide, 0)
    /\ ret' = Returned(getFormatedMetadataJSON(Some(documentTextModel),
                  CellOf(originalSide)[1].metadata, CellOf(originalSide)[1].language))
    /\ fired' = << >>
    /\ ReadOnly

\* getFormatedMetadataJSON(undefined, cell.metadata, cell.language)
GetFormatedMetadataJSONWithoutDocument(originalSide) ==
    /\ CellOf(originalSide) # None
    /\ op' = Call("getFormatedMetadataJSON(undefined)", originalSide, 0)
    /\ ret' = Returned(getFormatedMetadataJSON(None,
                  CellOf(originalSide)[1].metadata, CellOf(originalSide)[1].language))
    /\ fired' = << >>
    /\ ReadOnly

\* SideBySideCellDiffViewModel.checkMetadataIfModified()
SideBySideCheckMetadataIfModifiedCall ==
    /\ kind = "sideBySide"
    /\ op' = Call0("checkMetadataIfModified")
    /\ ret' = Returned(SideBySideCheckMetadataIfModified(documentTextModel, original, modified))
    /\ fired' = << >>
    /\ ReadOnly

\* SideBySideCellDiffViewModel.checkIfOutputsModified()
SideBySideCheckIfOutputsModifiedCall ==
    /\ kind = "sideBySide"
    /\ op' = Call0("checkIfOutputsModified")
    /\ ret' = Returned(SideBySideCheckIfOutputsModified(documentTextModel, original, modified, type))
    /\ fired' = << >>
    /\ ReadOnly

(***************************************************************************)
(* The specifications.  Callers pass indices at or above 0.                *)
(***************************************************************************)
\* the calls that read or write the output heights
OutputCalls ==
    \/ \E height \in LayoutHeights : SetOutputHeight(height)
    \/ OnDidChangeLayout
    \/ \E state \in {Expanded, Collapsed} : SetOutputFoldingState(state)
    \/ SingleEnsureOutputsTop
    \/ SingleLayoutChange
    \/ \E index \in Indices, height \in Heights : SingleUpdateOutputHeight(index, height)
    \/ \E index \in Indices : SingleGetOutputOffsetInContainer(index)
    \/ SingleGetOutputTotalHeight
    \/ EnsureOriginalOutputsTop
    \/ EnsureModifiedOutputsTop
    \/ SideBySideEnsureOutputsTop
    \/ SideBySideLayoutChange
    \/ \E originalSide \in BOOLEAN, index \in Indices, height \in Heights :
          SideBySideUpdateOutputHeight(originalSide, index, height)
    \/ \E originalSide \in BOOLEAN, index \in Indices :
          SideBySideGetOutputOffsetInContainer(originalSide, index)
    \/ SideBySideGetOutputTotalHeight

\* the setters of the layout fields that no output operation writes
LayoutCalls ==
    \/ \E height \in LayoutHeights : SetOutputStatusHeight(height)
    \/ \E height \in LayoutHeights : SetEditorHeight(height)
    \/ \E height \in LayoutHeights : SetEditorMargin(height)
    \/ \E height \in LayoutHeights : SetMetadataHeight(height)

Next ==
    \/ OutputCalls
    \/ LayoutCalls

\* every operation, on cells of few outputs
Spec ==
    Init /\ [][Next]_vars

\* the output operations, on cells of up to MaxOutputs outputs
SpecOutputs ==
    InitOutputs /\ [][OutputCalls]_vars

\* the calls that write the output heights, the trackers or the output folding state
UpdateCalls ==
    \/ \E state \in {Expanded, Collapsed} : SetOutputFoldingState(state)
    \/ SingleEnsureOutputsTop
    \/ SingleLayoutChange
    \/ \E index \in Indices, height \in Heights : SingleUpdateOutputHeight(index, height)
    \/ EnsureOriginalOutputsTop
    \/ EnsureModifiedOutputsTop
    \/ SideBySideEnsureOutputsTop
    \/ SideBySideLayoutChange
    \/ \E originalSide \in BOOLEAN, index \in Indices, height \in Heights :
          SideBySideUpdateOutputHeight(originalSide, index, height)

\* the height updates, from every state of heights, trackers and folding
SpecUpdates ==
    InitOutputs /\ [][UpdateCalls]_vars

\* the calls that take an output index, from callers that pass negative ones too
IndexCalls ==
    \/ \E index \in AnyIndices, height \in Heights : SingleUpdateOutputHeight(index, height)
    \/ \E index \in AnyIndices : SingleGetOutputOffsetInContainer(index)
    \/ \E originalSide \in BOOLEAN, index \in AnyIndices, height \in Heights :
          SideBySideUpdateOutputHeight(originalSide, index, height)
    \/ \E originalSide \in BOOLEAN, index \in AnyIndices :
          SideBySideGetOutputOffsetInContainer(originalSide, index)

\* the indexed output operations, with indices on both sides of the valid range
SpecIndices ==
    InitOutputs /\ [][IndexCalls]_vars

\* the calls that read the cells' metadata and outputs
MetadataCalls ==
    \/ \E originalSide \in BOOLEAN : GetFormatedMetadataJSON(originalSide)
    \/ \E originalSide \in BOOLEAN : GetFormatedMetadataJSONWithoutDocument(originalSide)
    \/ SideBySideCheckMetadataIfModifiedCall
    \/ SideBySideCheckIfOutputsModifiedCall

\* the metadata snapshot and the modified-predicates, on cells of every metadata
SpecMetadata ==
    InitCells /\ [][MetadataCalls]_vars

(***************************************************************************)
(* What the claims speak of.                                               *)
(***************************************************************************)
\* the height most recently stored for output j, 0 for one never updated
StoredHeight(collection, j) ==
    IF collection[j + 1] = Hole THEN 0 ELSE collection[j + 1][1]

RECURSIVE HeightsBefore(_, _)
\* the stored heights of outputs 0 .. j-1 added up
HeightsBefore(collection, j) ==
    IF j <= 0 THEN 0 ELSE StoredHeight(collection, j - 1) + HeightsBefore(collection, j - 1)

\* all stored heights added up
HeightsTotal(collection) ==
    HeightsBefore(collection, Len(collection))

\* the collection and the tracker a call with this `original` argument addresses
AddressedCollection(originalSide) ==
    IF kind = "single" THEN _outputCollection
    ELSE IF originalSide THEN _originalOutputCollection ELSE _modifiedOutputCollection

AddressedTop(originalSide) ==
    IF kind = "single" THEN _outputsTop
    ELSE IF originalSide THEN _originalOutputsTop ELSE _modifiedOutputsTop

\* what getOutputOffsetInContainer(index) on that side would answer in this state
OffsetNow(originalSide, index) ==
    OutputOffset(EnsureTop(AddressedTop(originalSide), AddressedCollection(originalSide)),
                 AddressedCollection(originalSide), index)

\* the last call returned `value`
LastReturned(name, value) ==
    op.name = name /\ ret = Returned(value)

\* C1: after any updates on valid indices, getOutputOffsetInContainer(j) is, for every
\* valid j and on every side, the sum of the heights most recently stored for outputs
\* 0..j-1 (never updated: 0); so each update counts once and overwriting never adds up.
C1_OffsetIsSumOfStoredHeights ==
    /\ \A originalSide \in BOOLEAN :
          \A j \in 0..(Len(AddressedCollection(originalSide)) - 1) :
              OffsetNow(originalSide, j)
                  = Returned(HeightsBefore(AddressedCollection(originalSide), j))
    /\ (op.name = "getOutputOffsetInContainer" /\ ret.error = "")
          => ret = Returned(HeightsBefore(AddressedCollection(op.original), op.index))

C1_Witness ==
    /\ kind = "sideBySide"
    /\ op = Call("getOutputOffsetInContainer", TRUE, 1)
    /\ ret = Returned(1)
    /\ _originalOutputCollection = << Some(1), Some(1) >>
    /\ _modifiedOutputCollection = << Some(1) >>

\* C2: for the single-side variant the total output height is, in every state, the sum
\* of the heights stored in the collection (never updated: 0; no outputs: 0).
C2_SingleTotalIsSumOfHeights ==
    kind = "single" =>
        /\ SingleTotalHeight(EnsureTop(_outputsTop, _outputCollection))
              = HeightsTotal(_outputCollection)
        /\ op.name = "getOutputTotalHeight" => ret = Returned(HeightsTotal(_outputCollection))

C2_Witness ==
    /\ kind = "single"
    /\ LastReturned("getOutputTotalHeight", 2)
    /\ Len(_outputCollection) = 2

\* C3: updateOutputHeight and getOutputOffsetInContainer with an index at or above the
\* length of the addressed collection throw 'Output index out of range!', on every side.
C3_IndexAtOrPastEndThrows ==
    /\ (op.name \in {"updateOutputHeight", "getOutputOffsetInContainer"}
          /\ op.index >= Len(AddressedCollection(op.original)))
          => ret = Threw(OutOfRange)
    /\ \A originalSide \in BOOLEAN, index \in Indices :
          index >= Len(AddressedCollection(originalSide))
              => OffsetNow(originalSide, index) = Threw(OutOfRange)

C3_Witness ==
    /\ kind = "sideBySide"
    /\ op = Call("updateOutputHeight", FALSE, 1)
    /\ ret = Threw(OutOfRange)
    /\ _modifiedOutputCollection = << Some(1) >>

\* C4 as claimed: getOutputOffsetInContainer(0) returns 0 in every state, on every side.
C4_OffsetOfIndexZeroIsZero ==
    (op.name = "getOutputOffsetInContainer" /\ op.index = 0) => ret = Returned(0)

\* C4 as amended: getOutputOffsetInContainer(0) returns 0 whenever the addressed
\* collection holds at least one output, whatever heights are stored.
C4_OffsetOfIndexZeroIsZeroWhenNonEmpty ==
    /\ (op.name = "getOutputOffsetInContainer" /\ op.index = 0
          /\ Len(AddressedCollection(op.original)) > 0)
          => ret = Returned(0)
    /\ \A originalSide \in BOOLEAN :
          Len(AddressedCollection(originalSide)) > 0
              => OffsetNow(originalSide, 0) = Returned(0)

C4_Witness ==
    /\ op = Call("getOutputOffsetInContainer", FALSE, 0)
    /\ ret = Returned(0)
    /\ AddressedCollection(FALSE)[1] = Some(1)

\* the larger of the two sides' sums of stored heights
MaxOfSides ==
    Max(HeightsTotal(_originalOutputCollection), HeightsTotal(_modifiedOutputCollection))

\* C5, in every state: the side-by-side total output height is the larger of the two
\* sides' sums of stored heights.
C5_TotalIsMaxOfSides ==
    kind = "sideBySide" =>
        /\ SideBySideTotalHeight(
                EnsureTop(_originalOutputsTop, _originalOutputCollection),
                EnsureTop(_modifiedOutputsTop, _modifiedOutputCollection)) = MaxOfSides
        /\ op.name = "getOutputTotalHeight" => ret = Returned(MaxOfSides)

\* C5, on every step: an updateOutputHeight that changes a stored height while the
\* output folding state is Expanded leaves _layoutInfo.outputHeight at that maximum.
C5_ExpandedUpdateLaysOutMax ==
    (/\ kind = "sideBySide"
     /\ op'.name = "updateOutputHeight"
     /\ ret'.error = ""
     /\ \/ Uint32Array(_originalOutputCollection') # Uint32Array(_originalOutputCollection)
        \/ Uint32Array(_modifiedOutputCollection') # Uint32Array(_modifiedOutputCollection)
     /\ outputFoldingState = Expanded)
        => _layoutInfo'.outputHeight = MaxOfSides'

\* C5: after any update of one side the side-by-side output region height is
\* max(original total, modified total), and an update that changed a value while
\* Expanded leaves the layout record's outputHeight at that maximum.
C5_SideBySideHeightIsMax ==
    []C5_TotalIsMaxOfSides /\ [][C5_ExpandedUpdateLaysOutMax]_vars

C5_Witness ==
    /\ kind = "sideBySide"
    /\ op.name = "updateOutputHeight"
    /\ Len(fired) = 1
    /\ outputFoldingState = Expanded
    /\ HeightsTotal(_originalOutputCollection) = 2
    /\ HeightsTotal(_modifiedOutputCollection) = 1
    /\ _layoutInfo.outputHeight = 2

\* the event flags that describe the sub-region a layout field belongs to
RegionFlags(field) ==
    CASE field = "editorHeight" -> {"editorHeight"}
      [] field = "metadataHeight" -> {"metadataEditor"}
      [] field = "outputHeight" -> {"outputEditor", "outputView"}
      [] OTHER -> {}

\* one step changes a layout field, emits an event, and the event carries the flags of
\* every sub-region whose field changed
C6_StepFlagsChangedRegions ==
    _layoutInfo' # _layoutInfo =>
        /\ Len(fired') >= 1
        /\ \A field \in DOMAIN _layoutInfo :
              _layoutInfo'[field] # _layoutInfo[field]
                  => RegionFlags(field) \subseteq fired'[Len(fired')]

\* C6 as claimed: every mutation of a layout field, by a setter or by layoutChange,
\* emits a change notification that flags each sub-region whose layout field changed.
C6_MutationFlagsChangedRegions ==
    [][C6_StepFlagsChangedRegions]_vars

\* C7: in every state totalHeight is the sum of all the fields of the layout record,
\* width among them.
C7_TotalHeightIsSumOfFields ==
    totalHeight(_layoutInfo)
        = _layoutInfo.editorHeight + _layoutInfo.editorMargin + _layoutInfo.metadataHeight
          + _layoutInfo.metadataStatusHeight + _layoutInfo.outputHeight
          + _layoutInfo.outputStatusHeight + _layoutInfo.bodyMargin + _layoutInfo.width

C7_Witness ==
    /\ op.name = "layoutChange"
    /\ _layoutInfo.outputHeight = 1
    /\ _layoutInfo.editorHeight = 1
    /\ _layoutInfo.editorMargin = 1
    /\ _layoutInfo.metadataHeight = 1
    /\ _layoutInfo.outputStatusHeight = 1

\* the tracker is absent, or as long as its collection and equal to it index by index
TrackerMatches(top, collection) ==
    \/ top = None
    \/ /\ Len(top[1]) = Len(collection)
       /\ \A j \in 0..(Len(collection) - 1) : top[1][j + 1] = StoredHeight(collection, j)

\* the calls the claim says build a tracker
TrackerUses ==
    {"updateOutputHeight", "getOutputOffsetInContainer", "getOutputTotalHeight",
     "ensureOutputsTop", "layoutChange"}

\* in every state: each tracker is absent or matches its collection, and all are absent
\* after construction
C8_TrackersMatch ==
    /\ TrackerMatches(_outputsTop, _outputCollection)
    /\ TrackerMatches(_originalOutputsTop, _originalOutputCollection)
    /\ TrackerMatches(_modifiedOutputsTop, _modifiedOutputCollection)
    /\ op.name = "constructor"
          => _outputsTop = None /\ _originalOutputsTop = None /\ _modifiedOutputsTop = None

\* on every step: a tracker comes into being only in one of the calls named
C8_BuiltOnlyByUse ==
    /\ (_outputsTop = None /\ _outputsTop' # None) => op'.name \in TrackerUses
    /\ (_originalOutputsTop = None /\ _originalOutputsTop' # None)
          => op'.name \in TrackerUses \cup {"ensureOriginalOutputsTop"}
    /\ (_modifiedOutputsTop = None /\ _modifiedOutputsTop' # None)
          => op'.name \in TrackerUses \cup {"ensureModifiedOutputsTop"}

\* the trackers of this instance are all built
TrackersBuilt ==
    IF kind = "single" THEN _outputsTop # None
    ELSE _originalOutputsTop # None /\ _modifiedOutputsTop # None

\* C8 as claimed: each tracker is absent or matches its collection, and it is absent
\* until the first updateOutputHeight, getOutputOffsetInContainer, getOutputTotalHeight,
\* ensureOutputsTop or layoutChange call, which builds it.
C8_TrackerBuiltOnFirstUse ==
    /\ []C8_TrackersMatch
    /\ [][C8_BuiltOnlyByUse /\ (op'.name \in TrackerUses => TrackersBuilt')]_vars

\* C8 as amended: the same, the first use being a getOutputOffsetInContainer,
\* getOutputTotalHeight, ensureOutputsTop or layoutChange call or an updateOutputHeight
\* call whose index passes the range check; an updateOutputHeight that throws builds
\* no tracker.
C8_TrackerBuiltOnFirstUseInRange ==
    /\ []C8_TrackersMatch
    /\ [][/\ C8_BuiltOnlyByUse
          /\ (op'.name \in TrackerUses /\ ~(op'.name = "updateOutputHeight" /\ ret'.error # ""))
                => TrackersBuilt'
          /\ (op'.name = "updateOutputHeight" /\ ret'.error # "")
                => UNCHANGED << _outputsTop, _originalOutputsTop, _modifiedOutputsTop >>]_vars

C8_Witness ==
    /\ kind = "sideBySide"
    /\ op.name = "updateOutputHeight"
    /\ _originalOutputCollection = << Some(1), Hole >>
    /\ _originalOutputsTop = Some(<< 1, 0 >>)
    /\ _modifiedOutputCollection = << Hole >>
    /\ _modifiedOutputsTop = Some(<< 0 >>)

\* the calls that always notify: the layout setters, layoutChange, the host's event
NotifyingCalls ==
    {"set outputHeight", "set outputStatusHeight", "set editorHeight", "set editorMargin",
     "set metadataHeight", "layoutChange", "onDidChangeLayout"}

\* the heights stored on all sides, never updated ones as 0
AllStoredHeights ==
    << Uint32Array(_outputCollection), Uint32Array(_originalOutputCollection),
       Uint32Array(_modifiedOutputCollection) >>

\* the number of notifications the step's call has to deliver before it returns
NotificationsDue ==
    IF op'.name \in NotifyingCalls THEN 1
    ELSE IF op'.name = "updateOutputHeight" /\ AllStoredHeights' # AllStoredHeights THEN 1
    ELSE 0

\* C10: each layout setter call, each layoutChange call, each updateOutputHeight call that
\* changes a stored height and each host layout event delivers exactly one notification
\* to the listeners within the call, and no other call delivers any.
C10_OneNotificationPerCall ==
    [][Len(fired') = NotificationsDue]_vars

C10_Witness ==
    /\ op.name = "updateOutputHeight"
    /\ fired = << {} >>
    /\ _layoutInfo.editorHeight = 1

\* metadata[key]: None when the object has no such property
ValueOf(metadata, key) ==
    LET at == {i \in 1..Len(metadata) : metadata[i][1] = key}
    IN  IF at = {} THEN None ELSE Some(metadata[CHOOSE i \in at : TRUE][2])

\* the two cells have the same language tag and agree on every key the document's
\* policy does not mark transient
AgreeOutsideTransient ==
    /\ original[1].language = modified[1].language
    /\ \A key \in MetadataKeys \ documentTextModel.transientOptions.transientMetadata :
          ValueOf(original[1].metadata, key) = ValueOf(modified[1].metadata, key)

\* the snapshot text of one side's cell under the document's policy
SnapshotOf(originalSide) ==
    getFormatedMetadataJSON(Some(documentTextModel),
        CellOf(originalSide)[1].metadata, CellOf(originalSide)[1].language)

\* C9 as claimed: two cells with the same language tag whose metadata agree on every
\* non-transient key get the same snapshot text and checkMetadataIfModified() is false;
\* a difference in the language tag or in a non-transient key's value gives different
\* snapshot texts.
C9_SnapshotIgnoresTransientOnly ==
    /\ op.name = "getFormatedMetadataJSON"
          => (AgreeOutsideTransient <=> ret = Returned(SnapshotOf(~op.original)))
    /\ (op.name = "checkMetadataIfModified" /\ AgreeOutsideTransient)
          => ret = Returned(FALSE)

\* what the offset and total queries would answer in this state, on every side
AllOffsetsAndTotals ==
    << [originalSide \in BOOLEAN |->
          [index \in Indices |-> OffsetNow(originalSide, index)]],
       HeightsTotal(_outputCollection),
       HeightsTotal(_originalOutputCollection),
       HeightsTotal(_modifiedOutputCollection) >>

\* C11 as claimed: updateOutputHeight and getOutputOffsetInContainer called with a
\* negative index throw 'Output index out of range!' and change no stored output height
\* and no offset, for both variants and both sides.
C11_NegativeIndexRejected ==
    [][(op'.name \in {"updateOutputHeight", "getOutputOffsetInContainer"} /\ op'.index < 0)
          => /\ ret' = Threw(OutOfRange)
             /\ AllStoredHeights' = AllStoredHeights
             /\ AllOffsetsAndTotals' = AllOffsetsAndTotals]_vars

\* the fields of the layout record other than outputHeight
OtherLayoutFields ==
    DOMAIN InitialLayoutInfo \ {"outputHeight"}

\* the total output height as the stored heights give it
StoredTotal ==
    IF kind = "single" THEN HeightsTotal(_outputCollection) ELSE MaxOfSides

\* the step stores no height but, at most, the one of output `index` on the addressed side
StoresOnlyAt(originalSide, index) ==
    \A side \in BOOLEAN :
        /\ Len(AddressedCollection(side)') = Len(AddressedCollection(side))
        /\ \A j \in 0..(Len(AddressedCollection(side)) - 1) :
              \/ (kind = "single" \/ side = originalSide) /\ j = index
              \/ AddressedCollection(side)'[j + 1] = AddressedCollection(side)[j + 1]

\* the step runs layoutChange: called directly, or by an updateOutputHeight that changes
\* a stored height
RunsLayoutChange ==
    \/ op'.name = "layoutChange"
    \/ op'.name = "updateOutputHeight" /\ AllStoredHeights' # AllStoredHeights

\* C12: layoutChange, called directly or by a value-changing updateOutputHeight, changes
\* of the layout record only outputHeight, which becomes 0 when outputFoldingState is
\* Collapsed and getOutputTotalHeight() when it is Expanded; every other field, both
\* folding states and the output height collections (but for the height the update
\* itself stores) stay as they are.
C12_LayoutChangeWritesOutputHeightOnly ==
    [][RunsLayoutChange =>
          /\ \A field \in OtherLayoutFields : _layoutInfo'[field] = _layoutInfo[field]
          /\ _layoutInfo'.outputHeight
                = (IF outputFoldingState = Collapsed THEN 0 ELSE StoredTotal')
          /\ UNCHANGED << metadataFoldingState, outputFoldingState >>
          /\ IF op'.name = "layoutChange"
             THEN UNCHANGED << _outputCollection, _originalOutputCollection,
                               _modifiedOutputCollection >>
             ELSE StoresOnlyAt(op'.original, op'.index)]_vars

C12_Witness ==
    /\ kind = "sideBySide"
    /\ op.name = "updateOutputHeight"
    /\ fired = << {} >>
    /\ outputFoldingState = Expanded
    /\ _layoutInfo.outputHeight = 1
    /\ _layoutInfo.editorMargin = 1
    /\ _layoutInfo.metadataHeight = 1

\* the addressed collection as the step leaves it
AddressedCollectionAfter(originalSide) ==
    IF kind = "single" THEN _outputCollection'
    ELSE IF originalSide THEN _originalOutputCollection' ELSE _modifiedOutputCollection'

\* C13: an updateOutputHeight on a valid index runs layoutChange, and so notifies, if and
\* only if the new height differs from the height tracked for that index (0 for an output
\* never updated); an update to the height the output already has emits nothing and
\* leaves the layout record, every offset and the totals as they are.
C13_UpdateNotifiesIffHeightChanges ==
    [][(op'.name = "updateOutputHeight" /\ ret'.error = "") =>
          LET tracked == StoredHeight(AddressedCollection(op'.original), op'.index)
              new == StoredHeight(AddressedCollectionAfter(op'.original), op'.index)
          IN  /\ new # tracked => fired' = << LayoutChangeEvent >>
              /\ new = tracked =>
                    /\ fired' = << >>
                    /\ UNCHANGED _layoutInfo
                    /\ AllOffsetsAndTotals' = AllOffsetsAndTotals]_vars

C13_Witness ==
    /\ kind = "single"
    /\ op = Call("updateOutputHeight", FALSE, 0)
    /\ ret = Void
    /\ fired = << >>
    /\ _outputCollection = << Some(0), Some(1) >>
    /\ _layoutInfo.outputHeight = 1

\* one side as its callers see it: the stored heights, the offset of every index, the total
SideView(originalSide) ==
    << AddressedCollection(originalSide),
       [index \in Indices |-> OffsetNow(originalSide, index)],
       TotalOrZero(EnsureTop(AddressedTop(originalSide), AddressedCollection(originalSide))) >>

\* C14: the two sides of the side-by-side variant are independent: an updateOutputHeight
\* on one side leaves every stored height, every getOutputOffsetInContainer result and
\* the total of the other side unchanged, in every reachable state.
C14_UpdateLeavesOtherSide ==
    [][(kind = "sideBySide" /\ op'.name = "updateOutputHeight") =>
          \A side \in BOOLEAN : side # op'.original => SideView(side)' = SideView(side)]_vars

C14_Witness ==
    /\ kind = "sideBySide"
    /\ op = Call("updateOutputHeight", TRUE, 1)
    /\ fired = << {} >>
    /\ _originalOutputCollection = << Some(1), Some(1) >>
    /\ _modifiedOutputCollection = << Some(1) >>

\* the step's updateOutputHeight names an index at or above the addressed length
UpdatePastEnd ==
    /\ op'.name = "updateOutputHeight"
    /\ op'.index >= Len(AddressedCollection(op'.original))

\* C15: an updateOutputHeight whose index is at or above the collection length fails and
\* has no effect: the output height collections, the trackers, the layout record, the
\* folding states, every offset and total queried afterwards are as before the call, and
\* no notification is emitted.
C15_FailedUpdateHasNoEffect ==
    [][(UpdatePastEnd \/ (op'.name = "updateOutputHeight" /\ ret'.error # "")) =>
          /\ ret' = Threw(OutOfRange)
          /\ fired' = << >>
          /\ UNCHANGED << _layoutInfo, foldingStates,
                          singleOutputs, originalOutputs, modifiedOutputs >>
          /\ AllOffsetsAndTotals' = AllOffsetsAndTotals]_vars

C15_Witness ==
    /\ kind = "single"
    /\ op = Call("updateOutputHeight", FALSE, 2)
    /\ ret = Threw(OutOfRange)
    /\ _outputCollection = << Some(1), Hole >>
    /\ outputFoldingState = Expanded
    /\ _layoutInfo.outputHeight = 1

\* C16: a newly constructed single-side view model has both folding states Collapsed; a
\* newly constructed side-by-side one has outputFoldingState Expanded if and only if the
\* document's outputs are not transient, the entry type is 'modified' and the original
\* and modified outputs differ, and metadataFoldingState Expanded if and only if the
\* metadata snapshots of original and modified differ; an 'unchanged' entry never starts
\* with its output region Expanded.
C16_InitialFoldingState ==
    op.name = "constructor" =>
        /\ {metadataFoldingState, outputFoldingState} \subseteq {Expanded, Collapsed}
        /\ kind = "single" =>
              metadataFoldingState = Collapsed /\ outputFoldingState = Collapsed
        /\ kind = "sideBySide" =>
              /\ outputFoldingState = Expanded
                    <=> /\ ~documentTextModel.transientOptions.transientOutputs
                        /\ type = "modified"
                        /\ original[1].outputs # modified[1].outputs
              /\ metadataFoldingState = Expanded <=> SnapshotOf(TRUE) # SnapshotOf(FALSE)
              /\ type = "unchanged" => outputFoldingState = Collapsed

C16_Witness ==
    /\ kind = "sideBySide"
    /\ op.name = "constructor"
    /\ type = "modified"
    /\ outputFoldingState = Expanded
    /\ metadataFoldingState = Collapsed
    /\ original[1].metadata # modified[1].metadata

\* on every step of the host's layout event: one notification, flagged outerWidth only,
\* and no state written
C17_EventStepOnlyNotifies ==
    op'.name = "onDidChangeLayout" =>
        /\ fired' = << {"outerWidth"} >>
        /\ UNCHANGED << _layoutInfo, foldingStates,
                        singleOutputs, originalOutputs, modifiedOutputs >>

\* C17: a layout-change event of the host editor's dispatcher makes the view model emit
\* a notification flagged outerWidth only and changes no state: the layout record, the
\* folding states and the output height collections stay, and width is at its initial
\* value 0 in every reachable state.
C17_HostLayoutEventOnlyNotifies ==
    [](_layoutInfo.width = 0) /\ [][C17_EventStepOnlyNotifies]_vars

C17_Witness ==
    /\ op.name = "onDidChangeLayout"
    /\ fired = << {"outerWidth"} >>
    /\ _layoutInfo.width = 0
    /\ _layoutInfo.editorHeight = 1
    /\ _layoutInfo.outputHeight = 1

====
